---- MODULE Spec2Model ----
(***************************************************************************)
(* Model of homesweetpi's polling / ingestion loop                          *)
(* (homesweetpi/retrieve_data.py) and of the storage queries it uses        *)
(* (homesweetpi/sql_tables.py).                                             *)
(*                                                                         *)
(* Spec is the loop, with a second instance of it writing to the same       *)
(* table.  StoreSpec is the table under the functions of sql_tables.py that *)
(* are called from outside the loop.  NormSpec is the normalisation of      *)
(* fetch_recent_data on registries of several shapes.  LiveSpec is the loop *)
(* polling pis that stay reachable and answer with the readings they hold,  *)
(* the loop never ceasing to take its steps.                                *)
(*                                                                         *)
(* Datetimes are integers: microseconds since 1970-01-01 00:00:00 (the      *)
(* resolution of a Python datetime and of a DateTime column).  The         *)
(* 'datetime' field of a raw reading is in milliseconds since the epoch.    *)
(***************************************************************************)
EXTENDS Integers, Sequences, FiniteSets, Bags, TLC

(***************************************************************************)
(* Bounds of the model.                                                     *)
(***************************************************************************)
\* the largest number of rows in one payload sent by a device
MaxRows == 2

\* the millisecond timestamps a device may put on a reading
RawTimes == {500, 1000}

\* the values a device may report in the measurement field 'temp'
Temps == {20}

(***************************************************************************)
(* The registry: tables raspberrypis and sensors.  They are filled once by  *)
(* load_sensor_and_pi_info and only read by the loop.                       *)
(***************************************************************************)
RaspberryPi ==
    { [id |-> 1, name |-> "catflap",    ipaddress |-> "192.168.0.11"],
      [id |-> 2, name |-> "greenhouse", ipaddress |-> "192.168.0.12"] }

Sensor ==
    { [id |-> 5, location |-> "kitchen", type |-> "dht22", pin |-> 4, piid |-> 1],
      [id |-> 6, location |-> "bath",    type |-> "dht22", pin |-> 17, piid |-> 1],
      [id |-> 7, location |-> "kitchen", type |-> "dht22", pin |-> 4, piid |-> 2] }

PiIds == { p.id : p \in RaspberryPi }

Locations == { s.location : s \in Sensor }

PiOf(piid) == CHOOSE p \in RaspberryPi : p.id = piid

(***************************************************************************)
(* Sequences and result sets.                                               *)
(***************************************************************************)
\* the rows of a result set, in the arbitrary order the database hands them out
RECURSIVE SetToSeq(_)
SetToSeq(S) ==
    IF S = {} THEN <<>>
    ELSE LET x == CHOOSE y \in S : TRUE
         IN  <<x>> \o SetToSeq(S \ {x})

\* ndarray.sort(): ascending
RECURSIVE InsertAsc(_, _)
InsertAsc(x, s) ==
    IF s = <<>> THEN <<x>>
    ELSE IF x <= Head(s) THEN <<x>> \o s
    ELSE <<Head(s)>> \o InsertAsc(x, Tail(s))

\* the array sorted and then reversed
RECURSIVE SortDesc(_)
SortDesc(s) ==
    IF s = <<>> THEN <<>>
    ELSE LET rest == SortDesc(Tail(s))
             later == SelectSeq(rest, LAMBDA x : x > Head(s))
             sooner == SelectSeq(rest, LAMBDA x : x <= Head(s))
         IN  later \o << Head(s) >> \o sooner

RECURSIVE SortAsc(_)
SortAsc(s) == IF s = <<>> THEN <<>> ELSE InsertAsc(Head(s), SortAsc(Tail(s)))

\* ORDER BY datetime DESC
RECURSIVE InsertByDatetimeDesc(_, _)
InsertByDatetimeDesc(r, s) ==
    IF s = <<>> THEN <<r>>
    ELSE IF r.datetime >= Head(s).datetime THEN <<r>> \o s
    ELSE <<Head(s)>> \o InsertByDatetimeDesc(r, Tail(s))

RECURSIVE OrderByDatetimeDesc(_)
OrderByDatetimeDesc(s) ==
    IF s = <<>> THEN <<>>
    ELSE InsertByDatetimeDesc(Head(s), OrderByDatetimeDesc(Tail(s)))

(***************************************************************************)
(* datetime arithmetic: the proleptic Gregorian calendar of Python's        *)
(* datetime, on microseconds since the epoch.                               *)
(***************************************************************************)
MicrosPerSecond == 1000 * 1000

SecondsPerDay == 24 * 60 * 60

\* datetime(1970, 1, 1), the value get_last_time returns for an empty result
Epoch == 0 * MicrosPerSecond

\* (year, month, day) of a day number counted from 1970-01-01
CivilFromDays(z) ==
    LET zz  == z + 719468
        era == zz \div 146097
        doe == zz - era * 146097
        yoe == (doe - doe \div 1460 + doe \div 36524 - doe \div 146096) \div 365
        doy == doe - (365 * yoe + yoe \div 4 - yoe \div 100)
        mp  == (5 * doy + 2) \div 153
        dd  == doy - (153 * mp + 2) \div 5 + 1
        mm  == IF mp < 10 THEN mp + 3 ELSE mp - 9
        yy  == yoe + era * 400 + (IF mm <= 2 THEN 1 ELSE 0)
    IN  [year |-> yy, month |-> mm, day |-> dd]

\* the day number of (year, month, day)
DaysFromCivil(y, m, d) ==
    LET yy  == IF m <= 2 THEN y - 1 ELSE y
        era == yy \div 400
        yoe == yy - era * 400
        doy == (153 * (IF m > 2 THEN m - 3 ELSE m + 9) + 2) \div 5 + d - 1
        doe == yoe * 365 + yoe \div 4 - yoe \div 100 + doy
    IN  era * 146097 + doe - 719468

\* the attributes year .. microsecond of a datetime
Fields(t) ==
    LET secs == t \div MicrosPerSecond
        days == secs \div SecondsPerDay
        rem  == secs % SecondsPerDay
        civ  == CivilFromDays(days)
    IN  [year |-> civ.year, month |-> civ.month, day |-> civ.day,
         hour |-> rem \div 3600, minute |-> (rem % 3600) \div 60,
         second |-> rem % 60, microsecond |-> t % MicrosPerSecond]

\* datetime(year, month, day, hour, minute, second)
MakeDatetime(y, m, d, hh, mi, ss) ==
    ((DaysFromCivil(y, m, d) * SecondsPerDay) + hh * 3600 + mi * 60 + ss)
        * MicrosPerSecond

\* timedelta(seconds=n)
Timedelta(seconds) == seconds * MicrosPerSecond

Pad2(n) == IF n < 10 THEN "0" \o ToString(n) ELSE ToString(n)

Pad4(n) ==
    IF n < 10 THEN "000" \o ToString(n)
    ELSE IF n < 100 THEN "00" \o ToString(n)
    ELSE IF n < 1000 THEN "0" \o ToString(n)
    ELSE ToString(n)

\* query_time.strftime('%Y%m%d%H%M%S')
Strftime(t) ==
    LET f == Fields(t)
    IN  Pad4(f.year) \o Pad2(f.month) \o Pad2(f.day)
          \o Pad2(f.hour) \o Pad2(f.minute) \o Pad2(f.second)

\* round_up_seconds without its timedelta
TruncateSeconds(datetime_) ==
    LET f == Fields(datetime_)
    IN  MakeDatetime(f.year, f.month, f.day, f.hour, f.minute, f.second)

\* a rounding that leaves a datetime on a whole second where it is
CeilSeconds(datetime_) ==
    IF Fields(datetime_).microsecond = 0
    THEN datetime_
    ELSE TruncateSeconds(datetime_) + Timedelta(1)

\* round_up_seconds: the fields down to the second, plus one second
round_up_seconds(datetime_) ==
    LET f == Fields(datetime_)
    IN  MakeDatetime(f.year, f.month, f.day, f.hour, f.minute, f.second)
          + Timedelta(1)

\* pd.to_datetime(column, unit="ms")
ToDatetime(ms) == ms * 1000

(***************************************************************************)
(* Python values that cross function boundaries.                            *)
(***************************************************************************)
\* None, and a pandas DataFrame with the given rows
None == [isnone |-> TRUE, rows |-> <<>>]

DataFrame(rows) == [isnone |-> FALSE, rows |-> rows]

\* the outcome of a call: the value returned, or the exception raised
Returns(value) == [exc |-> "none", value |-> value]

Raises(exc) == [exc |-> exc, value |-> None]

\* the base class of each exception class the loop can meet.  The name
\* ConnectionError in retrieve_data.py is Python's builtin (the module imports
\* requests, never requests.exceptions.ConnectionError by name).
ExceptionBase(cls) ==
    CASE cls = "ConnectionRefusedError" -> "ConnectionError"
      [] cls = "ConnectionError" -> "OSError"
      [] cls = "requests.exceptions.ConnectionError"
             -> "requests.exceptions.RequestException"
      [] cls = "requests.exceptions.RequestException" -> "OSError"
      [] cls = "sqlalchemy.exc.IntegrityError" -> "sqlalchemy.exc.SQLAlchemyError"
      [] OTHER -> "Exception"

\* except <cls>: whether an exception of class exc is caught
RECURSIVE IsInstance(_, _)
IsInstance(exc, cls) ==
    IF exc = cls THEN TRUE
    ELSE IF exc = "Exception" THEN FALSE
    ELSE IsInstance(ExceptionBase(exc), cls)

(***************************************************************************)
(* What a device answers.                                                   *)
(***************************************************************************)
\* a raw reading, as a device reports it: its own name and id, a location,
\* a millisecond timestamp and the measurement
RawRows ==
    { [datetime |-> t, location |-> l, piname |-> p.name, pi_id |-> p.id,
       sensortype |-> "dht22", temp |-> v] :
         t \in RawTimes, l \in Locations, p \in RaspberryPi, v \in Temps }

RECURSIVE SeqsUpTo(_, _)
SeqsUpTo(S, n) ==
    IF n = 0 THEN { <<>> }
    ELSE LET shorter == SeqsUpTo(S, n - 1)
         IN  shorter \cup { Append(s, x) : s \in shorter, x \in S }

\* the tables a device may send
Payloads == SeqsUpTo(RawRows, MaxRows)

\* the number of characters of the JSON text of a table: the braces and at
\* least one character per row
JsonTextLen(table) == 2 + Len(table)

\* what response.json() yields: type and len() of the decoded value, the table
\* the value encodes when it is a str, the text of a message
EmptyList == [type |-> "list", len |-> 0, table |-> <<>>, message |-> ""]

EmptyString == [type |-> "str", len |-> 0, table |-> <<>>, message |-> ""]

MessageDict(text) == [type |-> "dict", len |-> 1, table |-> <<>>, message |-> text]

TwoKeyDict == [type |-> "dict", len |-> 2, table |-> <<>>, message |-> "bad request"]

TableString(table) ==
    [type |-> "str", len |-> JsonTextLen(table), table |-> table, message |-> ""]

Bodies ==
    { EmptyList, EmptyString, MessageDict("no data"), TwoKeyDict }
      \cup { TableString(t) : t \in Payloads }

\* the exceptions requests.get raises for an unreachable device, and one of the
\* builtin connection errors
NetworkErrors == { "requests.exceptions.ConnectionError", "ConnectionRefusedError" }

\* the outcomes of requests.get(url) followed by response.json()
NoResponse == [kind |-> "none", exc |-> "none", body |-> EmptyList]

\* requests.get(url) is called without timeout: a device that accepts the
\* connection and sends nothing keeps the call waiting for ever
NoAnswer == [kind |-> "silent", exc |-> "none", body |-> EmptyList]

HttpOutcomes ==
    { [kind |-> "raise", exc |-> e, body |-> EmptyList] : e \in NetworkErrors }
      \cup { [kind |-> "body", exc |-> "none", body |-> b] : b \in Bodies }
      \cup { NoAnswer }

(***************************************************************************)
(* Registry queries (sql_tables.py).                                        *)
(***************************************************************************)
\* get_pi_ids: the ids of table raspberrypis, sorted
get_pi_ids == SortAsc(SetToSeq(PiIds))

get_ip_addr(piid) == PiOf(piid).ipaddress

\* the join of sensors and raspberrypis without the filter on the pi, as
\* get_sensors_and_pis makes it
SensorsAndPis(sensors, piid) ==
    SetToSeq({ [sensorid |-> sp[1].id, location |-> sp[1].location,
                piname |-> sp[2].name] :
                 sp \in { sp \in sensors \X RaspberryPi : sp[2].id = sp[1].piid } })

\* the query of get_sensors_on_pi on a table sensors: columns sensorid,
\* location, piname of the pi's sensors
SensorsOnPi(sensors, piid) ==
    SetToSeq({ [sensorid |-> s.id, location |-> s.location, piname |-> p.name] :
                 s \in { s \in sensors : s.piid = piid },
                 p \in { p \in RaspberryPi : p.id = piid } })

\* get_sensors_on_pi: columns sensorid, location, piname of the pi's sensors
get_sensors_on_pi(piid) == SensorsOnPi(Sensor, piid)

(***************************************************************************)
(* The normalisation inside fetch_recent_data.                              *)
(***************************************************************************)
\* the rows of right that agree with row l on location and piname, joined to l
RECURSIVE MergeRow(_, _)
MergeRow(l, right) ==
    IF right = <<>> THEN <<>>
    ELSE LET r == Head(right)
         IN  (IF l.location = r.location /\ l.piname = r.piname
              THEN << l @@ r >> ELSE <<>>) \o MergeRow(l, Tail(right))

\* left.merge(right, on=['location', 'piname']): an inner join in left order
RECURSIVE Merge(_, _)
Merge(left, right) ==
    IF left = <<>> THEN <<>>
    ELSE MergeRow(Head(left), right) \o Merge(Tail(left), right)

\* frame.drop(columns, axis=1)
Drop(rows, columns) ==
    [ i \in 1..Len(rows) |->
        [ c \in (DOMAIN rows[i]) \ columns |-> rows[i][c] ] ]

MeasurementKey(row) == << row.sensorid, row.datetime >>

\* frame.drop_duplicates(subset=['datetime', 'sensorid']): the first row of
\* each key stays
RECURSIVE DropDuplicatesFrom(_, _)
DropDuplicatesFrom(rows, seen) ==
    IF rows = <<>> THEN <<>>
    ELSE LET r == Head(rows)
         IN  IF MeasurementKey(r) \in seen
             THEN DropDuplicatesFrom(Tail(rows), seen)
             ELSE <<r>> \o DropDuplicatesFrom(Tail(rows),
                                              seen \cup { MeasurementKey(r) })

\* a frame left as the join made it
KeepDuplicates(rows) == rows

DropDuplicates(rows) == DropDuplicatesFrom(rows, {})

\* recent_data['datetime'] = pd.to_datetime(recent_data['datetime'], unit="ms")
ConvertDatetime(rows) ==
    [ i \in 1..Len(rows) |->
        [ rows[i] EXCEPT !.datetime = ToDatetime(rows[i].datetime) ] ]

DroppedColumns == { "piname", "location", "sensortype", "pi_id" }

\* lines 57-72 of fetch_recent_data, on the decoded response and on what
\* get_sensors_on_pi returned.  A frame made of no sensor has no columns, and
\* merge raises KeyError for the missing column 'location'
NormalizeWith(sensors, body) ==
    IF body.type # "str"
    THEN Raises("TypeError")
    ELSE IF sensors = <<>>
    THEN Raises("KeyError")
    ELSE LET frame   == ConvertDatetime(body.table)
             merged  == Drop(Merge(frame, sensors), DroppedColumns)
         IN  Returns(DataFrame(DropDuplicates(merged)))

\* lines 57-72 of fetch_recent_data, on the decoded response
Normalize(pi_id, body) == NormalizeWith(get_sensors_on_pi(pi_id), body)

(***************************************************************************)
(* fetch_recent_data (retrieve_data.py).                                    *)
(***************************************************************************)
\* the default of the parameter port
DefaultPort == 5002

\* the request: f"http://{ipaddr}:{port}/get_recent/{strftime}"
Url(ipaddr, port, strftime) ==
    [ipaddr |-> ipaddr, port |-> port, path |-> "/get_recent/" \o strftime]

RequestUrl(pi_id, query_time) ==
    Url(get_ip_addr(pi_id), DefaultPort, Strftime(query_time))

\* the clause "except ConnectionError" of fetch_recent_data
FetchHandles(exc) == IsInstance(exc, "ConnectionError")

\* the test written as "len(recent_data) > 0"
HasAnyElement(body) == body.len > 0

\* the test "len(recent_data) > 1"
HasData(body) == body.len > 1

\* recent_data after the try statement, when it is left without an exception
ReceivedBody(pi_id, outcome) ==
    IF outcome.kind = "raise"
    THEN MessageDict("Could not connect to " \o get_ip_addr(pi_id))
    ELSE outcome.body

\* fetch_recent_data(pi_id, query_time), requests.get and response.json()
\* behaving as outcome says
fetch_recent_data(pi_id, query_time, outcome) ==
    IF outcome.kind = "raise" /\ ~FetchHandles(outcome.exc)
    THEN Raises(outcome.exc)
    ELSE LET recent_data == ReceivedBody(pi_id, outcome)
         IN  IF HasData(recent_data)
             THEN Normalize(pi_id, recent_data)
             ELSE Returns(None)

(***************************************************************************)
(* Table measurements: primary key (sensorid, datetime).                    *)
(***************************************************************************)
RECURSIVE BagOfSeq(_)
BagOfSeq(rows) ==
    IF rows = <<>> THEN EmptyBag
    ELSE SetToBag({ Head(rows) }) (+) BagOfSeq(Tail(rows))

\* the number of rows of a table with the key
RowsWithKey(table, key) ==
    LET hits == { r \in BagToSet(table) : MeasurementKey(r) = key }
    IN  BagCardinality([ r \in hits |-> table[r] ])

\* a table measurements created without its primary key
NoPrimaryKey(table, rows) == FALSE

\* whether appending rows to the table breaks the primary key
ViolatesPrimaryKey(table, rows) ==
    \/ \E i \in 1..Len(rows) : RowsWithKey(table, MeasurementKey(rows[i])) > 0
    \/ \E i, j \in 1..Len(rows) :
          i < j /\ MeasurementKey(rows[i]) = MeasurementKey(rows[j])

\* to_sql called with if_exists="replace"
ToSqlReplace(table, frame) ==
    [exc |-> "none", table |-> BagOfSeq(frame.rows)]

\* frame.to_sql("measurements", ENGINE, index=False, if_exists="append"):
\* one INSERT of all rows in one transaction
to_sql(table, frame) ==
    IF ViolatesPrimaryKey(table, frame.rows)
    THEN [exc |-> "sqlalchemy.exc.IntegrityError", table |-> table]
    ELSE [exc |-> "none", table |-> table (+) BagOfSeq(frame.rows)]

\* the clause written as "except ConnectionError"
LoopHandlesConnectionError(exc) == IsInstance(exc, "ConnectionError")

\* the clause "except sqlalchemy.exc.IntegrityError" of the loop
LoopHandles(exc) == IsInstance(exc, "sqlalchemy.exc.IntegrityError")

(***************************************************************************)
(* The state.                                                               *)
(***************************************************************************)
VARIABLES
    measurements,   \* table measurements: a bag of rows
    pc,             \* the loop's position
    idx,            \* the position of piid in IDS
    querytime,      \* the loop's variable querytime
    recentdata,     \* the loop's variable recentdata while it is live: from
                    \* its assignment to the end of the iteration
    request,        \* the URL of the GET in progress
    response,       \* what the GET in progress did
    raised,         \* the exception that ended the process, "none" if none
    warning,        \* the pi the last step called LOG.warning for, 0 if none
    call,           \* the last call of a function made from outside the loop
                    \* (the web application, the tests): its arguments by
                    \* name, the exception it raised, the value it returned
                    \* (a bool as [bool |-> b], a datetime as [datetime |-> t])
    devices         \* the readings each pi holds in its own database, by pi id

vars == << measurements, pc, idx, querytime, recentdata, request, response,
           raised, warning, call, devices >>

\* the variables of the loop other than the table
loopvars == << pc, idx, querytime, recentdata, request, response, raised,
               warning >>

\* no call from outside the loop is in progress
NoCall == [op |-> "none", args |-> None, exc |-> "none", value |-> None]

\* IDS = get_pi_ids(), evaluated once before the loop
IDS == get_pi_ids

\* FREQ
FREQ == 300

NoRequest == Url("none", 0, "none")

NoWarning == 0

piid == IDS[idx]

\* the query without its filter on Sensor.piid
MeasurementsOfAnyPi(session, id) ==
    { m \in BagToSet(session) :
        \E s \in Sensor, p \in RaspberryPi : s.id = m.sensorid /\ p.id = s.piid }

\* the rows of measurements joined to sensors of the pi; session stands for
\* the contents of the table the session reads
MeasurementsOfPi(session, id) ==
    { m \in BagToSet(session) :
        \E s \in Sensor, p \in RaspberryPi :
            s.id = m.sensorid /\ p.id = s.piid /\ s.piid = id }

\* get_last_time: first() of the pi's measurements by descending datetime
get_last_time(id, session) ==
    LET result == OrderByDatetimeDesc(SetToSeq(MeasurementsOfPi(session, id)))
    IN  IF result # <<>> THEN Head(result).datetime ELSE Epoch

Init ==
    /\ measurements = EmptyBag
    /\ pc = "get_last_time"
    /\ idx = 1
    /\ querytime = Epoch
    /\ recentdata = None
    /\ request = NoRequest
    /\ response = NoResponse
    /\ raised = "none"
    /\ warning = NoWarning
    /\ call = NoCall
    /\ devices = [ p \in PiIds |-> {} ]

(***************************************************************************)
(* The loop "while True: for piid in IDS: ... time.sleep(FREQ)".            *)
(***************************************************************************)
\* the end of one iteration of "for piid in IDS"
NextDevice ==
    IF idx < Len(IDS)
    THEN idx' = idx + 1 /\ pc' = "get_last_time"
    ELSE idx' = idx /\ pc' = "sleep"

\* querytime = get_last_time(piid)
GetLastTime ==
    /\ pc = "get_last_time"
    /\ querytime' = get_last_time(piid, measurements)
    /\ pc' = "round_up_seconds"
    /\ warning' = NoWarning
    /\ UNCHANGED << measurements, idx, recentdata, request, response, raised,
                    call, devices >>

\* querytime = round_up_seconds(querytime)
RoundUpSeconds ==
    /\ pc = "round_up_seconds"
    /\ querytime' = round_up_seconds(querytime)
    /\ pc' = "fetch"
    /\ UNCHANGED << measurements, idx, recentdata, request, response, raised,
                    warning, call, devices >>

\* recentdata = fetch_recent_data(piid, querytime); an exception it raises is
\* caught nowhere and ends the process; a GET that is never answered never
\* returns, and the loop stays in it
FetchOutcome(outcome) ==
    /\ pc = "fetch"
    /\ LET result == fetch_recent_data(piid, querytime, outcome)
       IN  /\ request' = RequestUrl(piid, querytime)
           /\ response' = outcome
           /\ IF outcome = NoAnswer
              THEN /\ recentdata' = recentdata
                   /\ pc' = "blocked"
                   /\ raised' = raised
              ELSE IF result.exc = "none"
              THEN /\ recentdata' = result.value
                   /\ pc' = "store"
                   /\ raised' = raised
              ELSE /\ recentdata' = recentdata
                   /\ pc' = "terminated"
                   /\ raised' = result.exc
    /\ UNCHANGED << measurements, idx, querytime, warning, call, devices >>

\* the fetch, the GET ending in any of the ways it can
Fetch == \E outcome \in HttpOutcomes : FetchOutcome(outcome)

\* "if recentdata is None": nothing to save.  recentdata is not read again
\* before the next iteration assigns it
NoData ==
    /\ pc = "store"
    /\ recentdata = None
    /\ NextDevice
    /\ request' = NoRequest
    /\ response' = NoResponse
    /\ recentdata' = None
    /\ UNCHANGED << measurements, querytime, raised, warning, call, devices >>

\* the else branch: to_sql inside try / except IntegrityError
SaveData ==
    /\ pc = "store"
    /\ recentdata # None
    /\ LET result == to_sql(measurements, recentdata)
       IN  /\ measurements' = result.table
           /\ IF result.exc = "none"
              THEN NextDevice /\ UNCHANGED << warning, raised >>
              ELSE IF LoopHandles(result.exc)
              THEN NextDevice /\ warning' = piid /\ raised' = raised
              ELSE /\ pc' = "terminated" /\ idx' = idx
                   /\ raised' = result.exc /\ warning' = warning
    /\ request' = NoRequest
    /\ response' = NoResponse
    /\ recentdata' = None
    /\ UNCHANGED << querytime, call, devices >>

\* time.sleep(FREQ), then the next pass of "while True"
Sleep ==
    /\ pc = "sleep"
    /\ pc' = "get_last_time"
    /\ idx' = 1
    /\ warning' = NoWarning
    /\ UNCHANGED << measurements, querytime, recentdata, request, response,
                    raised, call, devices >>

\* the frames a second instance of the loop may save: what normalisation
\* makes of a one-row table of some pi
OtherPollerFrames ==
    { f \in { Normalize(id, TableString(<<row>>)).value :
                id \in PiIds, row \in RawRows } : f.rows # <<>> }

\* a second instance of the loop saves what it fetched from a pi: its only
\* effect on this instance is the rows it appends to measurements
OtherPollerSaves ==
    /\ pc \notin { "terminated", "blocked" }
    /\ \E frame \in OtherPollerFrames :
          LET result == to_sql(measurements, frame)
          IN  /\ result.exc = "none"
              /\ measurements' = result.table
    /\ UNCHANGED << loopvars, call, devices >>

Next ==
    \/ GetLastTime
    \/ RoundUpSeconds
    \/ Fetch
    \/ NoData
    \/ SaveData
    \/ Sleep
    \/ OtherPollerSaves

Spec == Init /\ [][Next]_vars

(***************************************************************************)
(* The queries of sql_tables.py that the web application and the tests      *)
(* call; session stands for the contents of table measurements.  A row of   *)
(* the model carries the measurement column temp; the columns humidity,     *)
(* pressure, gasvoc, mcdvalue and mcdvoltage are handled like it everywhere.*)
(***************************************************************************)
\* the values of 'temp' in the readings these calls are tried on
CallTemps == {20, 21}

\* the raw readings these calls are tried on
CallRawRows ==
    { [datetime |-> t, location |-> l, piname |-> p.name, pi_id |-> p.id,
       sensortype |-> "dht22", temp |-> v] :
         t \in RawTimes, l \in Locations, p \in RaspberryPi, v \in CallTemps }

\* the rows of a table, one per stored row, in the order the database hands
\* them out
RowsOf(session) ==
    LET copies == { << m, k >> : m \in BagToSet(session), k \in 1..BagCardinality(session) }
        stored == { c \in copies : c[2] <= session[c[1]] }
        order  == SetToSeq(stored)
    IN  [ i \in 1..Len(order) |-> order[i][1] ]

\* query.one()
One(query) ==
    IF query = <<>> THEN Raises("NoResultFound")
    ELSE IF Len(query) > 1 THEN Raises("MultipleResultsFound")
    ELSE Returns(DataFrame(query))

\* one_or_more_results returning False from "except MultipleResultsFound" too
ExactlyOneResult(query) == One(query).exc = "none"

\* one_or_more_results: False from "except NoResultFound"; the clause
\* "except MultipleResultsFound" only logs, and True is returned after it
one_or_more_results(query) ==
    IF IsInstance(One(query).exc, "NoResultFound") THEN FALSE ELSE TRUE

\* logs.sort_values(by="datetime")
RECURSIVE InsertByDatetimeAsc(_, _)
InsertByDatetimeAsc(r, s) ==
    IF s = <<>> THEN <<r>>
    ELSE IF r.datetime <= Head(s).datetime THEN <<r>> \o s
    ELSE <<Head(s)>> \o InsertByDatetimeAsc(r, Tail(s))

RECURSIVE SortValuesByDatetime(_)
SortValuesByDatetime(s) ==
    IF s = <<>> THEN <<>>
    ELSE InsertByDatetimeAsc(Head(s), SortValuesByDatetime(Tail(s)))

\* get_measurements_since(since_datetime)
get_measurements_since(since_datetime, session) ==
    LET query == SelectSeq(RowsOf(session), LAMBDA m : m.datetime >= since_datetime)
    IN  IF one_or_more_results(query)
        THEN DataFrame(SortValuesByDatetime(query))
        ELSE None

\* self.datetime.strftime("%d.%m.%Y %H:%M:%S")
StrftimeDayFirst(t) ==
    LET f == Fields(t)
    IN  Pad2(f.day) \o "." \o Pad2(f.month) \o "." \o Pad4(f.year) \o " "
          \o Pad2(f.hour) \o ":" \o Pad2(f.minute) \o ":" \o Pad2(f.second)

\* Measurement.get_row: the row with the location of its sensor and the name
\* of the sensor's pi
get_row(self) ==
    LET sensor == CHOOSE s \in Sensor : s.id = self.sensorid
    IN  [datetime |-> self.datetime,
         strftime |-> StrftimeDayFirst(self.datetime),
         sensorid |-> self.sensorid,
         sensorlocation |-> sensor.location,
         piname |-> PiOf(sensor.piid).name,
         temp |-> self.temp]

\* the query without its filter on Sensor.id
MeasurementsOfAnySensor(session, sensorid) ==
    { m \in BagToSet(session) :
        \E s \in Sensor, p \in RaspberryPi : s.id = m.sensorid /\ p.id = s.piid }

\* the rows of measurements joined to sensors and raspberrypis, of one sensor
MeasurementsOfSensor(session, sensorid) ==
    { m \in BagToSet(session) :
        \E s \in Sensor, p \in RaspberryPi :
            s.id = m.sensorid /\ p.id = s.piid /\ s.id = sensorid }

\* get_last_measurement_for_sensor: query.first() is None for an empty result,
\* and None.get_row() raises AttributeError, which "except NoResultFound" does
\* not catch
get_last_measurement_for_sensor(sensorid, session) ==
    LET query == OrderByDatetimeDesc(SetToSeq(MeasurementsOfSensor(session, sensorid)))
        exc   == IF query = <<>> THEN "AttributeError" ELSE "none"
    IN  IF exc = "none" THEN Returns(get_row(Head(query)))
        ELSE IF IsInstance(exc, "NoResultFound") THEN Returns(None)
        ELSE Raises(exc)

\* the clause written as "except sqlalchemy.exc.OperationalError"
SaveHandlesOperationalError(exc) ==
    IsInstance(exc, "sqlalchemy.exc.OperationalError")

\* the clause "except sqlalchemy.exc.IntegrityError" of save_recent_data
SaveHandles(exc) == IsInstance(exc, "sqlalchemy.exc.IntegrityError")

\* save_recent_data(recent_data) on a table: what it returns or raises, and
\* the table after it
save_recent_data(recent_data, table) ==
    LET result == to_sql(table, recent_data)
    IN  IF result.exc = "none"
        THEN [exc |-> "none", value |-> TRUE, table |-> result.table]
        ELSE IF SaveHandles(result.exc)
        THEN [exc |-> "none", value |-> FALSE, table |-> result.table]
        ELSE [exc |-> result.exc, value |-> FALSE, table |-> result.table]

\* the frames save_recent_data is given: what normalisation makes of a table
\* of some pi
SavedFrames ==
    { Normalize(id, TableString(t)).value :
        id \in PiIds, t \in SeqsUpTo(CallRawRows, MaxRows) }

\* the datetimes get_measurements_since is asked about
SinceTimes ==
    { Epoch } \cup { ToDatetime(t) : t \in RawTimes }
      \cup { round_up_seconds(ToDatetime(t)) : t \in RawTimes }

\* datetimes around the ends of a second and of a minute
SampleTimes ==
    { Epoch, Epoch + 1, Timedelta(1) - 1, Timedelta(1), Timedelta(59),
      Timedelta(60) - 1, Timedelta(119) + 500 * 1000 }

SaveRecentData ==
    /\ call.op = "none"
    /\ \E frame \in SavedFrames :
          LET result == save_recent_data(frame, measurements)
          IN  /\ measurements' = result.table
              /\ call' = [op |-> "save_recent_data",
                          args |-> [recent_data |-> frame],
                          exc |-> result.exc, value |-> [bool |-> result.value]]
    /\ UNCHANGED << loopvars, devices >>

GetMeasurementsSince ==
    /\ call.op = "none"
    /\ \E since \in SinceTimes :
          call' = [op |-> "get_measurements_since",
                   args |-> [since_datetime |-> since], exc |-> "none",
                   value |-> get_measurements_since(since, measurements)]
    /\ UNCHANGED << measurements, loopvars, devices >>

GetLastMeasurementForSensor ==
    /\ call.op = "none"
    /\ \E s \in Sensor :
          LET result == get_last_measurement_for_sensor(s.id, measurements)
          IN  call' = [op |-> "get_last_measurement_for_sensor",
                       args |-> [sensorid |-> s.id],
                       exc |-> result.exc, value |-> result.value]
    /\ UNCHANGED << measurements, loopvars, devices >>

\* round_up_seconds on the cursor of a pi or on a sample datetime
CallRoundUpSeconds ==
    /\ call.op = "none"
    /\ \E t \in SampleTimes \cup { get_last_time(id, measurements) : id \in PiIds } :
          call' = [op |-> "round_up_seconds", args |-> [datetime_ |-> t],
                   exc |-> "none", value |-> [datetime |-> round_up_seconds(t)]]
    /\ UNCHANGED << measurements, loopvars, devices >>

\* the caller is done with what the call gave it
CallEnds ==
    /\ call.op # "none"
    /\ call' = NoCall
    /\ UNCHANGED << measurements, loopvars, devices >>

StoreNext ==
    \/ SaveRecentData
    \/ GetMeasurementsSince
    \/ GetLastMeasurementForSensor
    \/ CallRoundUpSeconds
    \/ CallEnds

\* the store under the calls made from outside the loop
StoreSpec == Init /\ [][StoreNext]_vars

(***************************************************************************)
(* The normalisation of fetch_recent_data, on registries of several shapes. *)
(***************************************************************************)
\* a second sensor at a location of the first pi that has one already
SecondKitchenSensor ==
    [id |-> 8, location |-> "kitchen", type |-> "bme680", pin |-> 22, piid |-> 1]

\* contents of table sensors: the registry of the loop; the same with two
\* sensors at one location of a pi; the same without the sensors of one pi
Registries ==
    { Sensor,
      Sensor \cup { SecondKitchenSensor },
      { s \in Sensor : s.piid # 2 } }

\* the first row id of the table a pi keeps its readings in, as in the
\* payload of the tests
FirstRowId == 101

\* a table with the column id of the payload of the tests: the row number a
\* pi's own database gave each reading
WithRowIds(table) ==
    [ i \in 1..Len(table) |-> table[i] @@ [id |-> FirstRowId + i - 1] ]

\* the tables a pi sends: with the column id, and without
SentTables ==
    LET tables == SeqsUpTo(CallRawRows, MaxRows)
    IN  tables \cup { WithRowIds(t) : t \in tables }

\* lines 57-72 of fetch_recent_data for a table a pi sent
CallNormalize ==
    /\ call.op = "none"
    /\ \E sensors \in Registries, id \in PiIds, table \in SentTables :
          LET result == NormalizeWith(SensorsOnPi(sensors, id), TableString(table))
          IN  call' = [op |-> "fetch_recent_data",
                       args |-> [sensors |-> sensors, pi_id |-> id, table |-> table],
                       exc |-> result.exc, value |-> result.value]
    /\ UNCHANGED << measurements, loopvars, devices >>

NormNext ==
    \/ CallNormalize
    \/ CallEnds

NormSpec == Init /\ [][NormNext]_vars

(***************************************************************************)
(* The loop polling pis that stay reachable and answer what they are asked: *)
(* all the readings they hold since the cutoff of the URL.                  *)
(***************************************************************************)
\* the milliseconds at which the pis take readings: two inside one second
LogTimes == {1200, 1700}

\* the readings a pi takes: under its own name and id, at any location
ReadingsTakenBy(p) ==
    { [datetime |-> t, location |-> l, piname |-> PiOf(p).name, pi_id |-> p,
       sensortype |-> "dht22", temp |-> v] :
         t \in LogTimes, l \in Locations, v \in Temps }

\* the datetime the path /get_recent/%Y%m%d%H%M%S carries: query_time to the
\* second
UrlCutoff(query_time) == query_time - (query_time % MicrosPerSecond)

\* the readings of a pi since the cutoff
ReadingsSince(p, cutoff) ==
    { r \in devices[p] : ToDatetime(r.datetime) >= cutoff }

\* what a pi answers the GET with: the table of its readings since the
\* cutoff, or a message when it has none
DeviceAnswer(p, query_time) ==
    LET recent == ReadingsSince(p, UrlCutoff(query_time))
    IN  IF recent = {}
        THEN [kind |-> "body", exc |-> "none",
              body |-> MessageDict("query returned no results")]
        ELSE [kind |-> "body", exc |-> "none",
              body |-> TableString(SetToSeq(recent))]

\* a pi takes a reading, later than those it holds
DeviceLogs ==
    /\ \E p \in PiIds, r \in UNION { ReadingsTakenBy(q) : q \in PiIds } :
          /\ r \in ReadingsTakenBy(p)
          /\ r \notin devices[p]
          /\ \A h \in devices[p] : h.datetime < r.datetime
          /\ devices' = [devices EXCEPT ![p] = @ \cup {r}]
    /\ UNCHANGED << measurements, loopvars, call >>

\* the fetch, the pi answering
LiveFetch ==
    \E outcome \in { DeviceAnswer(piid, querytime) } : FetchOutcome(outcome)

\* a second instance of the loop saves a reading it fetched from a pi
LiveOtherSaves ==
    /\ \E p \in PiIds, r \in UNION { ReadingsTakenBy(q) : q \in PiIds } :
          /\ r \in devices[p]
          /\ LET frame  == Normalize(p, TableString(<<r>>)).value
                 result == to_sql(measurements, frame)
             IN  /\ frame.rows # <<>>
                 /\ result.exc = "none"
                 /\ measurements' = result.table
    /\ UNCHANGED << loopvars, call, devices >>

\* a step of the loop
LoopStep ==
    \/ GetLastTime
    \/ RoundUpSeconds
    \/ LiveFetch
    \/ NoData
    \/ SaveData
    \/ Sleep

LiveNext ==
    \/ GetLastTime
    \/ RoundUpSeconds
    \/ LiveFetch
    \/ NoData
    \/ SaveData
    \/ Sleep
    \/ DeviceLogs
    \/ LiveOtherSaves

\* the positions of the loop at which it has a next statement
LoopPositions == { "get_last_time", "round_up_seconds", "fetch", "store", "sleep" }

\* the loop moves on: the steps of LiveNext that change pc are those of
\* LoopStep, and at each of its positions the loop has one to take
LoopMoves ==
    /\ pc \in LoopPositions
    /\ pc' \in LoopPositions \cup { "terminated", "blocked" }

\* the loop is a running process: while it has a next statement, it executes
\* it.  The pis and the second instance act when they will
LiveSpec == Init /\ [][LiveNext]_vars /\ WF_pc(LoopMoves)

(***************************************************************************)
(* Properties.                                                              *)
(***************************************************************************)
\* the pis a table of raw rows names
PisOfTable(table) == { table[i].pi_id : i \in 1..Len(table) }

\* the stored rows of the sensors the registry gives to a pi
OwnRows(id) ==
    { m \in BagToSet(measurements) :
        \E s \in Sensor : s.id = m.sensorid /\ s.piid = id }

\* C1: a network failure of the GET for one pi does not keep the pis that come
\* after it in IDS from being polled in the same cycle: the process never
\* stops on such a failure while pis of the cycle are still to be polled.
C1_FetchFailureIsolated ==
    ~ (pc = "terminated" /\ response.kind = "raise" /\ idx < Len(IDS))

\* C2: when the GET fails with a network error, fetch_recent_data raises
\* nothing and returns None.
C2_NetworkFailureReturnsNone ==
    response.kind = "raise" =>
        (raised = "none" /\ pc = "store" /\ recentdata = None)

\* C3: measurements never holds two rows with the same (sensorid, datetime),
\* whatever the loop and a second instance of it try to insert.
C3_UniqueKeys ==
    \A m \in BagToSet(measurements) :
        RowsWithKey(measurements, MeasurementKey(m)) = 1

\* C3: a duplicate insert was attempted and rejected, and rows are stored
C3_Witness == warning # NoWarning /\ BagCardinality(measurements) >= 2

\* C4: for a pi with a stored reading, the cursor the store yields never
\* decreases from one step to the next, hence from one cycle to the next; and
\* the cursor the loop takes is the one the store yields at that moment.
C4_CursorMonotonic ==
    [][ /\ \A id \in PiIds :
              OwnRows(id) # {} =>
                  get_last_time(id, measurements') >= get_last_time(id, measurements)
        /\ (pc = "get_last_time" /\ pc' = "round_up_seconds")
              => querytime' = get_last_time(piid, measurements) ]_vars

\* C4: the loop has derived for a pi a cursor later than an older stored
\* reading of that pi
C4_Witness ==
    /\ pc = "round_up_seconds"
    /\ querytime = ToDatetime(1000)
    /\ \E m \in OwnRows(piid) : m.datetime = ToDatetime(500)

\* C5: inserting the normalisation of the fetched payload, normalising the
\* payload again and inserting that too leaves exactly one stored row for each
\* (sensorid, datetime) of the payload, and the second insert changes nothing.
C5_SameStoreAfterSecondInsert ==
    (pc = "store" /\ recentdata # None) =>
        LET first  == to_sql(measurements, recentdata).table
            again  == Normalize(piid, response.body).value
            second == to_sql(first, again).table
        IN  /\ second = first
            /\ \A i \in 1..Len(recentdata.rows) :
                  RowsWithKey(second, MeasurementKey(recentdata.rows[i])) = 1

\* C6: when to_sql rejects the frame with an IntegrityError, the loop stores
\* nothing, warns for this pi, raises nothing and moves on to the next pi, or
\* to the sleep after the last one.
C6_RejectionCaught ==
    [][ ( /\ pc = "store" /\ pc' # "store"
          /\ recentdata # None
          /\ to_sql(measurements, recentdata).exc = "sqlalchemy.exc.IntegrityError" )
        => /\ raised' = "none"
           /\ warning' = piid
           /\ measurements' = measurements
           /\ IF idx < Len(IDS)
              THEN pc' = "get_last_time" /\ idx' = idx + 1
              ELSE pc' = "sleep" /\ idx' = idx ]_vars

\* C6: the loop warned for the first pi and is now at the second
C6_Witness ==
    /\ warning = IDS[1]
    /\ pc = "get_last_time"
    /\ idx = 2
    /\ raised = "none"

\* C7: a payload whose rows name more than one pi makes normalisation fail: no
\* frame of it reaches the store step.
C7_MixedPayloadFails ==
    ( /\ response.kind = "body"
      /\ response.body.type = "str"
      /\ Cardinality(PisOfTable(response.body.table)) > 1 )
    => ~ (pc = "store" /\ recentdata # None)

\* C8: after a GET that answered, fetch_recent_data has returned None without
\* raising if the decoded value has at most one element, and otherwise has
\* ended as the normalisation of that value ends: with its frame, or with the
\* error it raises.
C8_LengthDecides ==
    response.kind = "body" =>
        IF response.body.len <= 1
        THEN pc = "store" /\ recentdata = None /\ raised = "none"
        ELSE LET normal == Normalize(piid, response.body)
             IN  IF normal.exc = "none"
                 THEN pc = "store" /\ recentdata = normal.value /\ raised = "none"
                 ELSE pc = "terminated" /\ raised = normal.exc

\* C8: a one-element answer gave None
C8_Witness ==
    /\ response.kind = "body"
    /\ response.body.len = 1
    /\ pc = "store"
    /\ recentdata = None

\* C9: for a pi with no stored reading the loop gets 1970-01-01 00:00:00 from
\* get_last_time, rounds it to 00:00:01 and requests /get_recent/19700101000001
\* from the pi's address.
C9_EpochBootstrap ==
    OwnRows(piid) = {} =>
        /\ pc = "round_up_seconds" =>
              Fields(querytime) = [year |-> 1970, month |-> 1, day |-> 1,
                                   hour |-> 0, minute |-> 0, second |-> 0,
                                   microsecond |-> 0]
        /\ pc = "fetch" => Strftime(querytime) = "19700101000001"
        /\ request # NoRequest =>
              /\ request.path = "/get_recent/19700101000001"
              /\ request.ipaddr = PiOf(piid).ipaddress

\* C9: the request for a pi without stored readings has been sent
C9_Witness ==
    /\ OwnRows(piid) = {}
    /\ pc = "store"
    /\ request.path = "/get_recent/19700101000001"

\* C10: get_last_time(pi) is the largest datetime among the stored rows of the
\* pi's own sensors, and the epoch when there is none; it is a datetime in both
\* cases.
C10_LastTimeIsMaxOfOwnRows ==
    \A id \in PiIds :
        /\ get_last_time(id, measurements) \in Nat
        /\ IF OwnRows(id) = {}
           THEN Fields(get_last_time(id, measurements)) =
                    [year |-> 1970, month |-> 1, day |-> 1, hour |-> 0,
                     minute |-> 0, second |-> 0, microsecond |-> 0]
           ELSE /\ \E m \in OwnRows(id) : m.datetime = get_last_time(id, measurements)
                /\ \A m \in OwnRows(id) : m.datetime <= get_last_time(id, measurements)

\* C10: a pi's latest reading is older than a reading of another pi
C10_Witness ==
    \E id \in PiIds :
        /\ OwnRows(id) # {}
        /\ \E m \in BagToSet(measurements) :
              m \notin OwnRows(id) /\ m.datetime > get_last_time(id, measurements)

\* the stored readings of a sensor
ReadingsOf(sensorid) == { m \in BagToSet(measurements) : m.sensorid = sensorid }

\* C11: save_recent_data raises nothing; it returns True when no row of the
\* batch collides on (sensorid, datetime) with a stored row or with another row
\* of the batch, and then every row of the batch has been added to the store;
\* it returns False when a row collides, and then the store is as it was
\* before the call.
C11_SaveReportsOutcome ==
    [][ (call.op = "none" /\ call'.op = "save_recent_data") =>
          LET rows == call'.args.recent_data.rows
              collides ==
                  \/ \E i \in 1..Len(rows) :
                        \E m \in BagToSet(measurements) :
                            MeasurementKey(m) = MeasurementKey(rows[i])
                  \/ \E i, j \in 1..Len(rows) :
                        i # j /\ MeasurementKey(rows[i]) = MeasurementKey(rows[j])
          IN  /\ call'.exc = "none"
              /\ call'.value.bool = (~ collides)
              /\ collides => measurements' = measurements
              /\ (~ collides) => measurements' = measurements (+) BagOfSeq(rows) ]_vars

\* C11: a batch was rejected for a key the store holds already
C11_Witness ==
    /\ call.op = "save_recent_data"
    /\ call.value.bool = FALSE
    /\ \E i \in 1..Len(call.args.recent_data.rows) :
          \E m \in BagToSet(measurements) :
              MeasurementKey(m) = MeasurementKey(call.args.recent_data.rows[i])

\* C12: get_measurements_since(t) returns None when no stored row has a
\* datetime at or after t; otherwise it returns a frame holding exactly the
\* stored rows with datetime >= t, each once, in ascending order of datetime,
\* whether one row matches or several.
C12_MeasurementsSince ==
    call.op = "get_measurements_since" =>
        LET matching == { m \in BagToSet(measurements) : m.datetime >= call.args.since_datetime }
            rows     == call.value.rows
        IN  IF matching = {}
            THEN call.value = None
            ELSE /\ call.value.isnone = FALSE
                 /\ BagOfSeq(rows) = [ m \in matching |-> measurements[m] ]
                 /\ \A i, j \in 1..Len(rows) :
                       i < j => rows[i].datetime <= rows[j].datetime

\* C12: several rows matched while an earlier row was left out
C12_Witness ==
    /\ call.op = "get_measurements_since"
    /\ call.value.isnone = FALSE
    /\ Len(call.value.rows) >= 2
    /\ \E m \in BagToSet(measurements) : m.datetime < call.args.since_datetime

\* C13 as stated: get_last_measurement_for_sensor gives, for every reading
\* written for the sensor, that reading's sensorid and measurement value.
C13_ReadBackAnyReading ==
    \A m \in BagToSet(measurements) :
        (call.op = "get_last_measurement_for_sensor" /\ call.args.sensorid = m.sensorid)
            => /\ call.exc = "none"
               /\ call.value.sensorid = m.sensorid
               /\ call.value.temp = m.temp

\* C13 amended: get_last_measurement_for_sensor gives, for the written reading
\* of the sensor that no other stored reading of the sensor is later than,
\* that reading's sensorid, datetime and measurement value.
C13_ReadBackLatestReading ==
    \A m \in BagToSet(measurements) :
        ( /\ call.op = "get_last_measurement_for_sensor"
          /\ call.args.sensorid = m.sensorid
          /\ \A n \in ReadingsOf(m.sensorid) : n.datetime <= m.datetime )
            => /\ call.exc = "none"
               /\ call.value.sensorid = m.sensorid
               /\ call.value.datetime = m.datetime
               /\ call.value.temp = m.temp

\* C13: the sensor read back has an older reading with another value
C13_Witness ==
    /\ call.op = "get_last_measurement_for_sensor"
    /\ call.exc = "none"
    /\ \E m, n \in ReadingsOf(call.args.sensorid) :
          /\ m.datetime < n.datetime
          /\ m.temp # n.temp
          /\ call.value.temp = n.temp

\* C14: get_last_measurement_for_sensor raises nothing; it returns None when
\* the store holds no reading of the sensor and the row of the sensor's latest
\* reading otherwise.
C14_NoneWhenNoReading ==
    call.op = "get_last_measurement_for_sensor" =>
        /\ call.exc = "none"
        /\ IF ReadingsOf(call.args.sensorid) = {}
           THEN call.value = None
           ELSE \E m \in ReadingsOf(call.args.sensorid) :
                   /\ \A n \in ReadingsOf(call.args.sensorid) : n.datetime <= m.datetime
                   /\ call.value = get_row(m)

C16_SleepsAndNeverStops ==
    /\ pc = "sleep" => idx = Len(IDS)
    /\ pc # "terminated"

\* C17: the GET of a fetch returns: the loop is never left waiting in a GET
\* that no answer will end.
C17_FetchReturns == pc # "blocked"

\* C18: round_up_seconds(t) is the start of the second after the one t lies
\* in: a whole second, later than t, by one second at most; so it lies in a
\* later second than every stored reading not later than t, and, when t is the
\* cursor of a pi, than every stored reading of that pi.
C18_NextWholeSecond ==
    call.op = "round_up_seconds" =>
        /\ call.value.datetime % MicrosPerSecond = 0
        /\ call.value.datetime > call.args.datetime_
        /\ call.value.datetime - call.args.datetime_ <= MicrosPerSecond
        /\ call.value.datetime =
              ((call.args.datetime_ \div MicrosPerSecond) + 1) * MicrosPerSecond
        /\ \A m \in BagToSet(measurements) :
              m.datetime <= call.args.datetime_
                  => call.value.datetime \div MicrosPerSecond
                         > m.datetime \div MicrosPerSecond
        /\ \A id \in PiIds :
              call.args.datetime_ = get_last_time(id, measurements)
                  => \A m \in OwnRows(id) :
                        call.value.datetime \div MicrosPerSecond
                            > m.datetime \div MicrosPerSecond

\* C18: the datetime rounded is that of a stored reading, inside a second
C18_Witness ==
    /\ call.op = "round_up_seconds"
    /\ call.args.datetime_ % MicrosPerSecond # 0
    /\ \E m \in BagToSet(measurements) : m.datetime = call.args.datetime_

\* C19: every row of the frame normalisation returns comes from a raw row
\* whose (pi id, location, pi name) is that of exactly one sensor of the
\* registry, and no raw row gives rows of two sensors.
C19_ExactlyOneSensor ==
    (call.op = "fetch_recent_data" /\ call.exc = "none") =>
        LET sensors == call.args.sensors
            table   == call.args.table
            out     == call.value.rows
            Resolved(r) ==
                { s \in sensors : /\ s.piid = r.pi_id
                                  /\ s.location = r.location
                                  /\ PiOf(s.piid).name = r.piname }
            Made(r) ==
                { out[k].sensorid :
                    k \in { k \in 1..Len(out) :
                              /\ out[k].datetime = ToDatetime(r.datetime)
                              /\ out[k].temp = r.temp
                              /\ \E s \in sensors :
                                    /\ s.id = out[k].sensorid
                                    /\ s.location = r.location
                                    /\ PiOf(s.piid).name = r.piname } }
        IN  /\ \A k \in 1..Len(out) :
                  \E i \in 1..Len(table) :
                      /\ out[k].sensorid \in Made(table[i])
                      /\ Cardinality(Resolved(table[i])) = 1
            /\ \A i \in 1..Len(table) : Cardinality(Made(table[i])) <= 1

\* C20: normalisation raises nothing; every row of the frame it returns comes
\* from a raw row whose (location, pi name) is that of a sensor of the polled
\* pi, so a raw row that matches no such sensor is in the frame nowhere; and
\* every raw row that matches one has its reading in the frame.
C20_UnmatchedDropped ==
    call.op = "fetch_recent_data" =>
        LET sensors == { s \in call.args.sensors : s.piid = call.args.pi_id }
            table   == call.args.table
            out     == call.value.rows
            Joins(r, s) ==
                s.location = r.location /\ PiOf(s.piid).name = r.piname
            From(c, r) ==
                /\ c.datetime = ToDatetime(r.datetime)
                /\ \E s \in sensors : s.id = c.sensorid /\ Joins(r, s)
        IN  /\ call.exc = "none"
            /\ \A k \in 1..Len(out) :
                  \E i \in 1..Len(table) :
                      From(out[k], table[i]) /\ out[k].temp \in CallTemps
            /\ \A i \in 1..Len(table) :
                  (\E s \in sensors : Joins(table[i], s))
                      => \E k \in 1..Len(out) : From(out[k], table[i])

\* C21: the frame normalisation returns has at most one row for each
\* (sensor id, datetime), and every (sensor id, datetime) the join of the raw
\* rows with the sensors of the polled pi makes is the key of a row of it.
C21_OneRowPerKey ==
    (call.op = "fetch_recent_data" /\ call.exc = "none") =>
        LET sensors == { s \in call.args.sensors : s.piid = call.args.pi_id }
            table   == call.args.table
            out     == call.value.rows
            Matches ==
                { p \in sensors \X (1..Len(table)) :
                    /\ p[1].location = table[p[2]].location
                    /\ PiOf(p[1].piid).name = table[p[2]].piname }
            JoinedKeys ==
                { << p[1].id, ToDatetime(table[p[2]].datetime) >> : p \in Matches }
        IN  /\ \A k, l \in 1..Len(out) :
                  MeasurementKey(out[k]) = MeasurementKey(out[l]) => k = l
            /\ \A key \in JoinedKeys :
                  \E k \in 1..Len(out) : MeasurementKey(out[k]) = key

\* C21: a pi sent two readings of one sensor at one time that differ, and the
\* frame holds the first of them alone
C21_Witness ==
    /\ call.op = "fetch_recent_data"
    /\ call.exc = "none"
    /\ Len(call.args.table) = 2
    /\ call.args.table[1].location = call.args.table[2].location
    /\ call.args.table[1].datetime = call.args.table[2].datetime
    /\ call.args.table[1].temp # call.args.table[2].temp
    /\ Len(call.value.rows) = 1
    /\ call.value.rows[1].temp = call.args.table[1].temp

\* the columns of table measurements a reading of the payloads fills
MeasurementColumns == { "sensorid", "datetime", "temp" }

\* C22: every row of the frame normalisation returns has the sensor id, the
\* datetime (the milliseconds of a raw row, converted) and the measurement
\* and no other field: location, piname, pi_id, sensortype and the row id of
\* the payload are gone.
C22_OnlyMeasurementFields ==
    (call.op = "fetch_recent_data" /\ call.exc = "none") =>
        LET table == call.args.table
            out   == call.value.rows
        IN  \A k \in 1..Len(out) :
                /\ DOMAIN out[k] = MeasurementColumns
                /\ \E i \in 1..Len(table) :
                      /\ out[k].datetime = ToDatetime(table[i].datetime)
                      /\ out[k].temp = table[i].temp

\* C22: on the payloads without a column id the frame has those fields alone
C22_DeviceColumnsDropped ==
    (/\ call.op = "fetch_recent_data"
     /\ call.exc = "none"
     /\ \A i \in 1..Len(call.args.table) : "id" \notin DOMAIN call.args.table[i]) =>
        \A k \in 1..Len(call.value.rows) :
            DOMAIN call.value.rows[k] = MeasurementColumns

\* C24: every row a save of the loop adds to measurements while pi D is
\* polled carries the id of a sensor the registry gives to D, and is a
\* reading of the table D sent for that sensor's location under D's name:
\* what one pi sent is never stored under a sensor of another pi.
C24_StoredUnderOwnSensor ==
    [][ (pc = "store" /\ recentdata # None /\ recentdata' = None) =>
            LET table == response.body.table
            IN  \A m \in BagToSet(measurements') \ BagToSet(measurements) :
                    \E s \in Sensor :
                        /\ s.id = m.sensorid
                        /\ s.piid = IDS[idx]
                        /\ \E i \in 1..Len(table) :
                              /\ m.datetime = ToDatetime(table[i].datetime)
                              /\ s.location = table[i].location
                              /\ PiOf(s.piid).name = table[i].piname ]_vars

\* C24: the first pi sent a table with a row under its own name and a row
\* under the name of the second pi, at a location both have a sensor at, and
\* the loop is about to save the frame made of it, none of it stored yet
C24_Witness ==
    /\ pc = "store"
    /\ idx = 1
    /\ response.kind = "body"
    /\ \E i, j \in 1..Len(response.body.table) :
          /\ response.body.table[i].piname = PiOf(IDS[1]).name
          /\ response.body.table[j].piname = PiOf(IDS[2]).name
          /\ response.body.table[i].location = response.body.table[j].location
          /\ \E s \in Sensor :
                s.piid = IDS[2] /\ s.location = response.body.table[j].location
    /\ recentdata # None
    /\ Len(recentdata.rows) = 1
    /\ to_sql(measurements, recentdata).exc = "none"

\* the sensors of the registry a reading of a pi resolves to
SensorsOfReading(r) ==
    { s \in Sensor : /\ s.piid = r.pi_id
                     /\ s.location = r.location
                     /\ PiOf(s.piid).name = r.piname }

\* the reading is in measurements under its sensor
Stored(r) ==
    \E m \in BagToSet(measurements), s \in SensorsOfReading(r) :
        m.sensorid = s.id /\ m.datetime = ToDatetime(r.datetime)

\* C23: the loop running and the pis answering, every reading a pi holds
\* that is later than the pi's cursor and resolves to a sensor of the
\* registry is stored at some later time.
C23_HeldReadingsStored ==
    \A r \in UNION { ReadingsTakenBy(p) : p \in PiIds } :
        (/\ r \in devices[r.pi_id]
         /\ SensorsOfReading(r) # {}
         /\ ToDatetime(r.datetime) > get_last_time(r.pi_id, measurements))
            ~> Stored(r)

====
